---- MODULE Spec2Model ----
(***************************************************************************)
(* Background-removal service (src/app.py, src/gunicorn_config.py).        *)
(*                                                                         *)
(* The model covers the process start-up (the module body of app.py, run   *)
(* either as `python app.py` or imported by gunicorn with preload_app), the *)
(* global rembg_session, and the request handlers remove_background and    *)
(* health_check, one step per block of the handler's code.                 *)
(***************************************************************************)
EXTENDS Integers, Sequences, FiniteSets, TLC

\* Number of requests the model follows through the service.
MaxReqs == 2

Reqs == 1..MaxReqs

VARIABLES
    mode,           \* how the process was started: "main" or "gunicorn"
    proc,           \* position of the start-up code
    rembg_session,  \* the module global of app.py:41
    created,        \* number of sessions new_session has returned
    req             \* per request: the handler's position, locals and response

vars == <<mode, proc, rembg_session, created, req>>

----------------------------------------------------------------------------
(* Configuration, app.py:35-37 *)

MAX_FILE_SIZE == 10 * 1024 * 1024

png  == <<"p", "n", "g">>
jpg  == <<"j", "p", "g">>
jpeg == <<"j", "p", "e", "g">>
webp == <<"w", "e", "b", "p">>

ALLOWED_EXTENSIONS == {png, jpg, jpeg, webp}

None == "None"
Session == "isnet-general-use"

----------------------------------------------------------------------------
(* Strings are sequences of one-character strings. *)

\* str.lower() on the letters that occur in the model's filenames
Lower(c) ==
    CASE c = "P" -> "p"
      [] c = "N" -> "n"
      [] c = "G" -> "g"
      [] c = "J" -> "j"
      [] c = "E" -> "e"
      [] c = "W" -> "w"
      [] c = "B" -> "b"
      [] OTHER -> c

LowerStr(s) == [i \in 1..Len(s) |-> Lower(s[i])]

HasDot(s) == \E i \in 1..Len(s) : s[i] = "."

\* filename.rsplit('.', 1)[1]: the text after the last '.'
AfterLastDot(s) ==
    LET last == CHOOSE i \in 1..Len(s) :
                    s[i] = "." /\ \A j \in (i+1)..Len(s) : s[j] # "."
    IN  SubSeq(s, last + 1, Len(s))

\* allowed_file, app.py:54-57
allowed_file(filename) ==
    HasDot(filename) /\ LowerStr(AfterLastDot(filename)) \in ALLOWED_EXTENSIONS

----------------------------------------------------------------------------
(* Uploaded files *)

\* A file argument is None or an upload object with a declared filename, a
\* byte length and a content.
NoneFile == [isNone |-> TRUE, filename |-> <<>>, size |-> 0, content |-> "none"]

\* `not file` on the upload object of request.files: a werkzeug FileStorage
\* is falsy exactly when its filename is empty (FileStorage.__bool__ returns
\* bool(self.filename)); None is falsy.
Truthy(file) == ~file.isNone /\ file.filename # <<>>

NoReason == "None"
NoFileProvided == "No file provided"
NoFileSelected == "No file selected"
TypeNotAllowed == "File type not allowed"
FileTooLarge == "File too large"
Raised == "raised"

\* The outcome of validate_image_file: whether it raised, the pair
\* (is_valid, error_message) it returned, and the read position it leaves
\* the stream at.
Outcome(raised, is_valid, error_message, pos) ==
    [raised |-> raised, is_valid |-> is_valid, error_message |-> error_message,
     pos |-> pos]

\* the stream left where the measurement ended: no file.seek(0)
SeekStart_Missing(file) == file.size

\* app.py:73, file.seek(0): the position after the size was measured
SeekStart(file) == 0

\* The stream calls of app.py:71-73 that may raise: none of them (0), the
\* seek to the end (1), tell (2), the seek back (3).
SeekFaults == 0..3

\* validate_image_file, app.py:59-78, on a stream at position pos.
\* file.seek(0, os.SEEK_END) moves the position to the end, file.tell()
\* reads the size there, file.seek(0) moves it back; a fault of one of the
\* three leaves the function by an exception.
validate_image_file(file, pos, seekFault) ==
    IF ~Truthy(file) THEN Outcome(FALSE, FALSE, NoFileProvided, pos)
    ELSE IF file.filename = <<>> THEN Outcome(FALSE, FALSE, NoFileSelected, pos)
    ELSE IF ~allowed_file(file.filename) THEN Outcome(FALSE, FALSE, TypeNotAllowed, pos)
    ELSE IF seekFault = 1 THEN Outcome(TRUE, FALSE, Raised, pos)
    ELSE IF seekFault \in {2, 3} THEN Outcome(TRUE, FALSE, Raised, file.size)
    ELSE LET file_size == file.size
         IN  IF file_size > MAX_FILE_SIZE
             THEN Outcome(FALSE, FALSE, FileTooLarge, SeekStart(file))
             ELSE Outcome(FALSE, TRUE, NoReason, SeekStart(file))

----------------------------------------------------------------------------
(* Requests the model sends *)

a_png     == <<"a", ".", "p", "n", "g">>
a_Jpg     == <<"a", ".", "J", "p", "g">>
a_JPEG    == <<"a", ".", "J", "P", "E", "G">>
a_WEBP    == <<"a", ".", "W", "E", "B", "P">>
a_gif     == <<"a", ".", "g", "i", "f">>
a_png_gif == <<"a", ".", "p", "n", "g", ".", "g", "i", "f">>
bare_png  == <<"p", "n", "g">>
empty     == <<>>

\* What the uploaded bytes are: an image of some PIL mode, or not an image.
Garbage == "garbage"
Modes == {"RGB", "RGBA", "L"}

File(f, s, c) == [isNone |-> FALSE, filename |-> f, size |-> s, content |-> c]

Request(m, p, has, file) == [method |-> m, path |-> p, hasImage |-> has, file |-> file]

Upload(f, s, c) == Request("POST", "/api/remove-bg", TRUE, File(f, s, c))

PostNoImage == Request("POST", "/api/remove-bg", FALSE, NoneFile)
Preflight   == Request("OPTIONS", "/api/remove-bg", FALSE, NoneFile)
GetHealth   == Request("GET", "/health", FALSE, NoneFile)

\* Uploads that pass validate_image_file: each allowed extension, in several
\* letter cases, up to the largest accepted size, images and bytes that are
\* no image.
GoodUploads ==
    {Upload(a_png, 1, "RGB"),
     Upload(a_Jpg, MAX_FILE_SIZE, "RGBA"),
     Upload(a_JPEG, MAX_FILE_SIZE - 1, "L"),
     Upload(a_WEBP, MAX_FILE_SIZE, Garbage)}

\* Uploads that violate one or several of its checks.
BadUploads ==
    {Upload(empty, 1, "RGB"),
     Upload(bare_png, 1, "RGB"),
     Upload(a_gif, 1, "RGB"),
     Upload(a_png_gif, MAX_FILE_SIZE + 1, Garbage),
     Upload(a_png, MAX_FILE_SIZE + 1, "RGB")}

Requests == {PostNoImage, Preflight, GetHealth} \cup GoodUploads \cup BadUploads

----------------------------------------------------------------------------
(* Responses *)

\* A response: the status code and the fields of its JSON body that the
\* handlers set ("" where the body has no such field).
Response(code, error, message, status, model) ==
    [code |-> code, error |-> error, message |-> message, status |-> status,
     model |-> model]

NoResp == Response(0, "", "", "", "")

\* jsonify({"error": ..., "message": ...}), code
Json(code, error, message) == Response(code, error, message, "", "")

\* app.py:140-143
ServiceNotReady == Json(503, "Service not ready", "Background removal model is not loaded")
\* app.py:147-150
BadRequest == Json(400, "Bad request", "No image file provided in request")
\* app.py:157-160
InvalidFile(error_message) == Json(400, "Invalid file", error_message)
\* app.py:183-186
InvalidImage == Json(400, "Invalid image", "Could not process image file. Please ensure it's a valid image.")
\* app.py:214-217
InternalServerError == Json(500, "Internal server error", "An error occurred while processing your image. Please try again.")
\* app.py:131
NoContent == Json(204, "", "")
\* app.py:205-210: the PNG returned by remove()
PngResponse == Json(200, "", "image/png")
\* app.py:110-114
Healthy(model_status) == Response(200, "", "", "healthy", model_status)
\* app.py:117-121: the error field carries str(e)
Unhealthy == Response(503, "status fault", "", "unhealthy", "")
\* internal_server_error, app.py:227-234: what Flask answers for an
\* exception that leaves a view function
UnexpectedError == Json(500, "Internal server error", "An unexpected error occurred")

----------------------------------------------------------------------------
(* The state of one request *)

NoExc == "none"

NoData == <<"none", "none">>
\* the uploaded bytes as read from the stream
Raw(content) == <<"raw", content>>
\* a PNG encoding of an image of the given mode
Png(imgmode) == <<"PNG", imgmode>>

\* A request that has not arrived yet; its fields hold placeholders.
\* pos is the read position of the upload's stream, exc the exception an
\* except clause of the handler has caught.
IdleReq ==
    [pc |-> "idle", in |-> Preflight, stage |-> "NONE",
     is_valid |-> FALSE, error_message |-> NoReason,
     input_data |-> NoData, session_arg |-> None,
     resp |-> NoResp, decodes |-> 0, removes |-> 0, responses |-> 0,
     pos |-> 0, exc |-> NoExc]

----------------------------------------------------------------------------
(* Start-up *)

\* gunicorn_config.py:15-16: one sync worker, which handles one request at a
\* time.  app.run (app.py:245-249) starts the development server, which
\* handles every request on a thread of its own.
workers == 1

Init ==
    /\ mode \in {"main", "gunicorn"}
    /\ proc = "imported"           \* the module body has run up to app.py:235
    /\ rembg_session = None        \* app.py:41
    /\ created = 0
    /\ req = [r \in Reqs |-> IdleReq]

\* init_model with an except clause that logs and does not re-raise
init_model_swallow ==
    /\ mode = "main"
    /\ proc = "imported"
    /\ \E ok \in BOOLEAN :
         /\ rembg_session' = IF ok THEN Session ELSE rembg_session
         /\ created' = IF ok THEN created + 1 ELSE created
         /\ proc' = "initialized"
    /\ UNCHANGED <<mode, req>>

\* app.py:43-52, called from the __main__ block (app.py:238).
\* new_session either returns a session, or raises: the except clause logs
\* and re-raises, which ends the script before app.run.
init_model ==
    /\ mode = "main"
    /\ proc = "imported"
    /\ \E ok \in BOOLEAN :
         IF ok
         THEN /\ rembg_session' = Session
              /\ created' = created + 1
              /\ proc' = "initialized"
         ELSE /\ proc' = "aborted"
              /\ UNCHANGED <<rembg_session, created>>
    /\ UNCHANGED <<mode, req>>

\* app.run(...), app.py:245-249
AppRun ==
    /\ mode = "main"
    /\ proc = "initialized"
    /\ proc' = "serving"
    /\ UNCHANGED <<mode, rembg_session, created, req>>

\* gunicorn imports the module app (preload_app, gunicorn_config.py:22) and
\* serves app.app.  __name__ is then "app", so the block of app.py:236-249 is
\* skipped and init_model is not called.
GunicornServe ==
    /\ mode = "gunicorn"
    /\ proc = "imported"
    /\ proc' = "serving"
    /\ UNCHANGED <<mode, rembg_session, created, req>>

----------------------------------------------------------------------------
(* Request handling *)

Active(q) == req[q].pc \notin {"idle", "done"}

\* A request arrives and is routed to its view function.  Requests are
\* numbered in the order of their arrival.
Receive(r) ==
    /\ proc = "serving"
    /\ req[r].pc = "idle"
    /\ \A q \in Reqs : q < r => req[q].pc # "idle"
    /\ mode = "gunicorn" => Cardinality({q \in Reqs : Active(q)}) < workers
    /\ \E p \in Requests :
         req' = [req EXCEPT ![r] = [IdleReq EXCEPT !.pc = "entry", !.in = p,
                                                  !.stage = "RECEIVED"]]
    /\ UNCHANGED <<mode, proc, rembg_session, created>>

\* return <response>: the handler ends with one response
Return(r, resp, stage) ==
    [req EXCEPT ![r].pc = "done", ![r].resp = resp, ![r].stage = stage,
                ![r].responses = @ + 1]

Goto(r, pc) == [req EXCEPT ![r].pc = pc]

\* except Exception as e: return <response>
Caught(r, e, resp) ==
    [req EXCEPT ![r].pc = "done", ![r].resp = resp, ![r].stage = "ERRORED",
                ![r].responses = @ + 1, ![r].exc = e]

\* the status reported without looking at the session
ModelStatus_Loaded(session) == "loaded"

\* app.py:109
ModelStatus(session) == IF session # None THEN "loaded" ELSE "not_loaded"

\* health_check, app.py:105-121: the status, or 503 "unhealthy" if building
\* it raises
health_check(r) ==
    /\ req[r].pc = "entry"
    /\ req[r].in.path = "/health"
    /\ \E statusFault \in BOOLEAN :
         req' = IF statusFault
                THEN Caught(r, "status", Unhealthy)
                ELSE Return(r, Healthy(ModelStatus(rembg_session)), "RESPONDED")
    /\ UNCHANGED <<mode, proc, rembg_session, created>>

\* the method test placed after the readiness check
Options_AfterReady(r) ==
    /\ req[r].pc = "entry"
    /\ req[r].in.path = "/api/remove-bg"
    /\ req[r].in.method = "OPTIONS"
    /\ req' = IF rembg_session = None
              THEN Return(r, ServiceNotReady, "ERRORED")
              ELSE Return(r, NoContent, "RESPONDED")
    /\ UNCHANGED <<mode, proc, rembg_session, created>>

\* remove_background, app.py:130-131: the CORS preflight
Options(r) ==
    /\ req[r].pc = "entry"
    /\ req[r].in.path = "/api/remove-bg"
    /\ req[r].in.method = "OPTIONS"
    /\ req' = Return(r, NoContent, "RESPONDED")
    /\ UNCHANGED <<mode, proc, rembg_session, created>>

\* the readiness check left out
SessionNotReady_Never(session) == FALSE

\* app.py:138
SessionNotReady(session) == session = None

\* remove_background, app.py:133-143: the readiness check
CheckReady(r) ==
    /\ req[r].pc = "entry"
    /\ req[r].in.path = "/api/remove-bg"
    /\ req[r].in.method = "POST"
    /\ req' = IF SessionNotReady(rembg_session)
              THEN Return(r, ServiceNotReady, "ERRORED")
              ELSE Goto(r, "validate")
    /\ UNCHANGED <<mode, proc, rembg_session, created>>

\* the handler without the `if not is_valid: return`
Validate_NoReject(r) ==
    /\ req[r].pc = "validate"
    /\ \E lookupFault \in BOOLEAN, seekFault \in SeekFaults :
         LET v == validate_image_file(req[r].in.file, req[r].pos, seekFault)
         IN  req' = IF lookupFault
                    THEN Caught(r, "lookup", InternalServerError)
                    ELSE IF ~req[r].in.hasImage
                    THEN Return(r, BadRequest, "ERRORED")
                    ELSE IF v.raised
                    THEN [Caught(r, "seek", InternalServerError) EXCEPT ![r].pos = v.pos]
                    ELSE [req EXCEPT ![r].is_valid = v.is_valid,
                                     ![r].error_message = v.error_message,
                                     ![r].pos = v.pos,
                                     ![r].pc = "read", ![r].stage = "VALIDATED"]
    /\ UNCHANGED <<mode, proc, rembg_session, created>>

\* remove_background, app.py:145-162: 'image' in request.files, then
\* validate_image_file(file).  The lookup in request.files or a stream call
\* of the validator may raise; the outer except clause (app.py:212-217)
\* answers 500.
Validate(r) ==
    /\ req[r].pc = "validate"
    /\ \E lookupFault \in BOOLEAN, seekFault \in SeekFaults :
         LET v == validate_image_file(req[r].in.file, req[r].pos, seekFault)
             checked == [req EXCEPT ![r].is_valid = v.is_valid,
                                    ![r].error_message = v.error_message,
                                    ![r].pos = v.pos]
         IN  req' = IF lookupFault
                    THEN Caught(r, "lookup", InternalServerError)
                    ELSE IF ~req[r].in.hasImage
                    THEN Return(r, BadRequest, "ERRORED")
                    ELSE IF v.raised
                    THEN [Caught(r, "seek", InternalServerError) EXCEPT ![r].pos = v.pos]
                    ELSE IF ~v.is_valid
                    THEN [checked EXCEPT ![r].pc = "done",
                                         ![r].resp = InvalidFile(v.error_message),
                                         ![r].stage = "ERRORED",
                                         ![r].responses = @ + 1]
                    ELSE [checked EXCEPT ![r].pc = "read", ![r].stage = "VALIDATED"]
    /\ UNCHANGED <<mode, proc, rembg_session, created>>

\* file.read() on a stream at position pos: the whole upload from position
\* 0; from a later position the head is missing and what is left is no image
ReadFrom(file, pos) == Raw(IF pos = 0 THEN file.content ELSE Garbage)

\* file.read() outside the try block: the exception leaves the view function
Read_Escape(r) ==
    /\ req[r].pc = "read"
    /\ \E readFault \in BOOLEAN :
         req' = IF readFault
                THEN Caught(r, "read", UnexpectedError)
                ELSE [req EXCEPT ![r].pc = "decode",
                                 ![r].input_data = ReadFrom(req[r].in.file, req[r].pos),
                                 ![r].pos = req[r].in.file.size]
    /\ UNCHANGED <<mode, proc, rembg_session, created>>

\* remove_background, app.py:165: input_data = file.read()
Read(r) ==
    /\ req[r].pc = "read"
    /\ \E readFault \in BOOLEAN :
         req' = IF readFault
                THEN Caught(r, "read", InternalServerError)
                ELSE [req EXCEPT ![r].pc = "decode",
                                 ![r].input_data = ReadFrom(req[r].in.file, req[r].pos),
                                 ![r].pos = req[r].in.file.size]
    /\ UNCHANGED <<mode, proc, rembg_session, created>>

\* the image passed on in the mode it was uploaded in
Normalize_Keep(imgmode) == imgmode

\* app.py:172-174: the mode the image has after the conversion
Normalize(imgmode) == IF imgmode \notin {"RGB", "RGBA"} THEN "RGB" ELSE imgmode

\* no inner try: the fault reaches the outer except clause
DecodeFailure_Outer == InternalServerError

\* app.py:181-186: what the except clause of the inner try returns
DecodeFailure == InvalidImage

\* remove_background, app.py:168-186: Image.open, convert, save as PNG.
\* Image.open raises on bytes that are no image; any of the three calls may
\* raise on an image too.
Decode(r) ==
    /\ req[r].pc = "decode"
    /\ \E codecFault \in BOOLEAN :
         LET content == req[r].input_data[2]
             tried == [req EXCEPT ![r].decodes = @ + 1]
         IN  req' = IF content = Garbage \/ codecFault
                    THEN [tried EXCEPT ![r].pc = "done",
                                       ![r].resp = DecodeFailure,
                                       ![r].stage = "ERRORED",
                                       ![r].responses = @ + 1,
                                       ![r].exc = "codec"]
                    ELSE [tried EXCEPT ![r].pc = "remove",
                                       ![r].stage = "DECODED",
                                       ![r].input_data = Png(Normalize(content))]
    /\ UNCHANGED <<mode, proc, rembg_session, created>>

\* remove_background, app.py:190-194: the call remove(input_data,
\* session=rembg_session, ...) reads the global again and enters rembg
RemoveCall(r) ==
    /\ req[r].pc = "remove"
    /\ req' = [req EXCEPT ![r].pc = "in_remove",
                          ![r].session_arg = rembg_session,
                          ![r].removes = @ + 1]
    /\ UNCHANGED <<mode, proc, rembg_session, created>>

\* a handler that calls remove() again when it raised
RemoveReturn_Retry(r) ==
    /\ req[r].pc = "in_remove"
    /\ \E modelFault \in BOOLEAN :
         req' = IF modelFault
                THEN IF req[r].removes < 2
                     THEN [req EXCEPT ![r].removes = @ + 1]
                     ELSE Caught(r, "model", InternalServerError)
                ELSE [req EXCEPT ![r].pc = "encode", ![r].stage = "SEGMENTED"]
    /\ UNCHANGED <<mode, proc, rembg_session, created>>

\* remove(...) returns the output PNG or raises; the outer except clause
\* (app.py:212-217) answers 500
RemoveReturn(r) ==
    /\ req[r].pc = "in_remove"
    /\ \E modelFault \in BOOLEAN :
         req' = IF modelFault
                THEN Caught(r, "model", InternalServerError)
                ELSE [req EXCEPT ![r].pc = "encode", ![r].stage = "SEGMENTED"]
    /\ UNCHANGED <<mode, proc, rembg_session, created>>

\* remove_background, app.py:197-198: output_image = io.BytesIO(output_data)
Encode(r) ==
    /\ req[r].pc = "encode"
    /\ req' = [req EXCEPT ![r].pc = "send", ![r].stage = "ENCODED"]
    /\ UNCHANGED <<mode, proc, rembg_session, created>>

\* remove_background, app.py:201-217: send_file(...), or 500 if it raises
Send(r) ==
    /\ req[r].pc = "send"
    /\ \E sendFault \in BOOLEAN :
         req' = IF sendFault
                THEN Caught(r, "send", InternalServerError)
                ELSE Return(r, PngResponse, "RESPONDED")
    /\ UNCHANGED <<mode, proc, rembg_session, created>>

Handle(r) ==
    \/ Receive(r)
    \/ health_check(r)
    \/ Options(r)
    \/ CheckReady(r)
    \/ Validate(r)
    \/ Read(r)
    \/ Decode(r)
    \/ RemoveCall(r)
    \/ RemoveReturn(r)
    \/ Encode(r)
    \/ Send(r)

Next ==
    \/ init_model
    \/ AppRun
    \/ GunicornServe
    \/ \E r \in Reqs : Handle(r)

Spec == Init /\ [][Next]_vars

----------------------------------------------------------------------------
(* Properties *)

Done(r) == req[r].pc = "done"
Post(r) == req[r].in.method = "POST" /\ req[r].in.path = "/api/remove-bg"
IsUpload(r) == Post(r) /\ req[r].in.hasImage

\* The extension rule as the specification words it: the text after the last
\* '.', compared without regard to letter case, is one of png, jpg, jpeg, webp.
HasAllowedExtension(f) ==
    \E i \in 1..Len(f) :
        /\ f[i] = "."
        /\ \A j \in (i+1)..Len(f) : f[j] # "."
        /\ \E e \in ALLOWED_EXTENSIONS :
              /\ Len(e) = Len(f) - i
              /\ \A k \in 1..Len(e) : Lower(f[i + k]) = e[k]

\* The four checks of the validator in the order of the specification, and
\* the reason of the first one that fails.
ExpectedReason(file) ==
    IF file.isNone THEN NoFileProvided
    ELSE IF file.filename = <<>> THEN NoFileSelected
    ELSE IF ~HasAllowedExtension(file.filename) THEN TypeNotAllowed
    ELSE IF file.size > MAX_FILE_SIZE THEN FileTooLarge
    ELSE NoReason

\* C1: a POST /api/remove-bg handled while rembg_session is None is answered
\* 503 "Service not ready" whatever its payload, and a GET /health handled in
\* that state reports model "not_loaded".
C1_NotReadyIs503 ==
    [][\A r \in Reqs :
         (rembg_session = None /\ req[r].pc = "entry" /\ req'[r].pc # "entry") =>
            /\ Post(r) => req'[r].pc = "done" /\ req'[r].resp = ServiceNotReady
            /\ req[r].in.path = "/health" =>
                  /\ req'[r].pc = "done"
                  /\ req'[r].resp.model # "loaded"
                  /\ req'[r].resp.status = "healthy" =>
                        req'[r].resp.model = "not_loaded"]_vars

\* a well-formed upload answered 503 and a health probe answered not_loaded,
\* both with the session still None
C1_Witness ==
    /\ rembg_session = None
    /\ \E r \in Reqs :
          /\ Done(r) /\ req[r].in \in GoodUploads
          /\ req[r].in.file.content \in Modes
          /\ req[r].resp = ServiceNotReady
    /\ \E r \in Reqs :
          Done(r) /\ req[r].in = GetHealth /\ req[r].resp.model = "not_loaded"

\* C2: on every start-up path the session is created exactly once before the
\* first request is handled, and never reassigned or reset afterwards: while
\* the process serves, rembg_session is the one session ever created.
C2_SessionCreatedBeforeServing ==
    proc = "serving" => created = 1 /\ rembg_session = Session

\* C3: every POST /api/remove-bg without an `image` field is answered 400
\* "Bad request".
C3_MissingImageIs400 ==
    \A r \in Reqs :
        (Done(r) /\ Post(r) /\ ~req[r].in.hasImage) =>
            req[r].resp.code = 400 /\ req[r].resp.error = "Bad request"

\* C4: every upload longer than MAX_FILE_SIZE is answered 413, and an upload
\* of exactly MAX_FILE_SIZE bytes is not rejected for its size.  Stated for
\* the uploads whose size is the only possible ground of rejection: the
\* session is loaded and the filename has an allowed extension.
C4_OversizeIs413 ==
    \A r \in Reqs :
        (Done(r) /\ IsUpload(r) /\ rembg_session # None
            /\ HasAllowedExtension(req[r].in.file.filename)) =>
            /\ req[r].in.file.size > MAX_FILE_SIZE => req[r].resp.code = 413
            /\ req[r].in.file.size = MAX_FILE_SIZE =>
                  /\ req[r].resp.code # 413
                  /\ req[r].resp.message # FileTooLarge

\* C5: every upload whose filename has no allowed extension is answered 400
\* "Invalid file", and a filename with an allowed extension in any letter
\* case is not rejected for its type.
C5_BadExtensionIs400 ==
    \A r \in Reqs :
        (Done(r) /\ IsUpload(r)) =>
            /\ ~HasAllowedExtension(req[r].in.file.filename) =>
                  req[r].resp.code = 400 /\ req[r].resp.error = "Invalid file"
            /\ HasAllowedExtension(req[r].in.file.filename) =>
                  req[r].resp.message # TypeNotAllowed

\* C6: once the upload has passed validation, bytes that are no image, and
\* any fault of the decode / convert / re-encode block, end the request with
\* 400 "Invalid image" (never 500), and remove() is not called for it.
C6_UndecodableIs400 ==
    /\ [][\A r \in Reqs :
            (req[r].pc = "decode" /\ req'[r] # req[r]) =>
               /\ req[r].input_data = Raw(Garbage) => req'[r].stage # "DECODED"
               /\ req'[r].stage # "DECODED" =>
                     /\ req'[r].pc = "done"
                     /\ req'[r].resp = InvalidImage
                     /\ req'[r].resp.code = 400]_vars
    /\ [](\A r \in Reqs :
            (Done(r) /\ req[r].decodes > 0 /\ req[r].stage = "ERRORED"
                /\ req[r].input_data[1] = "raw") =>
               req[r].resp = InvalidImage /\ req[r].removes = 0)

\* a validated upload of bytes that are no image, answered "Invalid image"
C6_Witness ==
    \E r \in Reqs :
        /\ Done(r) /\ req[r].is_valid /\ req[r].in.file.content = Garbage
        /\ req[r].resp = InvalidImage /\ req[r].removes = 0
        /\ rembg_session # None

\* C7: remove() is never called with a null session.
C7_RemoveSessionNotNull ==
    \A r \in Reqs : req[r].removes > 0 => req[r].session_arg # None

\* a request inside remove()
C7_Witness ==
    \E r \in Reqs : req[r].pc = "in_remove" /\ req[r].session_arg = Session

\* C8: a failed init_model is fatal.  On the path that calls it, once
\* init_model has run without producing a session the start-up has aborted,
\* stays aborted, and no request is ever received.
C8_InitFailureIsFatal ==
    /\ [](mode = "main" /\ proc # "imported" /\ rembg_session = None =>
             proc = "aborted" /\ \A r \in Reqs : req[r].pc = "idle")
    /\ [][proc = "aborted" => proc' = "aborted"]_vars

\* the start-up aborted by a failed init_model
C8_Witness == proc = "aborted" /\ rembg_session = None

Rank(stage) ==
    CASE stage = "NONE" -> 0
      [] stage = "RECEIVED" -> 1
      [] stage = "VALIDATED" -> 2
      [] stage = "DECODED" -> 3
      [] stage = "SEGMENTED" -> 4
      [] stage = "ENCODED" -> 5
      [] stage = "RESPONDED" -> 6
      [] stage = "ERRORED" -> 7

Terminal(stage) == stage \in {"RESPONDED", "ERRORED"}

\* The upload passes the four checks of the specification.
Acceptable(file) ==
    /\ ~file.isNone /\ file.filename # <<>>
    /\ HasAllowedExtension(file.filename)
    /\ file.size <= MAX_FILE_SIZE

\* C9: a POST request moves through RECEIVED, VALIDATED, DECODED, SEGMENTED,
\* ENCODED, RESPONDED one stage at a time and never back, or to ERRORED; the
\* terminal stage is final and carries exactly one response; decode and
\* inference only run for a request that passed the readiness, field and
\* file checks.
C9_StagesInOrder ==
    /\ [][\A r \in Reqs :
            Post(r) =>
               /\ Terminal(req[r].stage) => req'[r] = req[r]
               /\ req'[r].stage # req[r].stage =>
                     \/ req'[r].stage = "ERRORED"
                     \/ Rank(req'[r].stage) = Rank(req[r].stage) + 1
               /\ req'[r].decodes + req'[r].removes > req[r].decodes + req[r].removes =>
                     ~Terminal(req[r].stage)]_vars
    /\ [](\A r \in Reqs :
            Post(r) =>
               /\ Terminal(req[r].stage) <=> Done(r)
               /\ req[r].responses = (IF Done(r) THEN 1 ELSE 0)
               /\ req[r].stage = "ERRORED" => req[r].resp.code \in {400, 500, 503}
               /\ req[r].stage = "RESPONDED" => req[r].resp.code = 200
               /\ req[r].decodes + req[r].removes > 0 =>
                     /\ rembg_session # None
                     /\ req[r].in.hasImage
                     /\ Acceptable(req[r].in.file)
               /\ req[r].resp.error \in {"Service not ready", "Bad request", "Invalid file"} =>
                     req[r].decodes = 0 /\ req[r].removes = 0)

\* one request answered with the PNG and one rejected by the validator
C9_Witness ==
    /\ \E r \in Reqs : Post(r) /\ req[r].stage = "RESPONDED" /\ req[r].removes = 1
    /\ \E r \in Reqs : Post(r) /\ req[r].stage = "ERRORED"
                        /\ req[r].resp.error = "Invalid file"

\* validate_image_file has returned for the upload of request r
Validated(r) == req[r].is_valid \/ req[r].error_message # NoReason

\* C10: validate_image_file reports the reason of the first failing check in
\* the order file present, filename non-empty, extension allowed, size within
\* limit, and accepts exactly when all four pass.
C10_FirstFailingCheck ==
    \A r \in Reqs :
        (IsUpload(r) /\ Validated(r)) =>
            /\ req[r].error_message = ExpectedReason(req[r].in.file)
            /\ req[r].is_valid <=> ExpectedReason(req[r].in.file) = NoReason

\* C11: when remove() raises, the request ends with 500 "Internal server
\* error" and its generic message, and remove() is called at most once for a
\* request.
C11_ModelFaultIs500 ==
    /\ [][\A r \in Reqs :
            (req[r].pc = "in_remove" /\ req'[r] # req[r]
                /\ req'[r].stage # "SEGMENTED") =>
               /\ req'[r].pc = "done"
               /\ req'[r].resp = InternalServerError
               /\ req'[r].removes = 1]_vars
    /\ [](\A r \in Reqs :
            /\ req[r].removes <= 1
            /\ req[r].exc = "model" =>
                  Done(r) /\ req[r].resp.code = 500
                          /\ req[r].resp.error = "Internal server error")

\* a request whose call of remove() raised, answered 500
C11_Witness ==
    \E r \in Reqs :
        /\ Done(r) /\ req[r].exc = "model" /\ req[r].removes = 1
        /\ req[r].resp = InternalServerError

\* C12: a fault at any step of a POST /api/remove-bg is caught by the
\* handler and answered with a JSON body with `error` and `message`; no
\* exception leaves the view function, the process goes on serving and the
\* next request can be received.
C12_FaultsAreCaught ==
    /\ [](\A r \in Reqs :
            (Post(r) /\ req[r].exc # NoExc) =>
               /\ Done(r) /\ req[r].responses = 1
               /\ req[r].resp \in {InternalServerError, InvalidImage}
               /\ req[r].resp.error # "" /\ req[r].resp.message # ""
               /\ req[r].resp # UnexpectedError
               /\ proc = "serving"
               /\ \A q \in Reqs :
                     (req[q].pc = "idle" /\ \A o \in Reqs : o < q => Done(o)) =>
                        ENABLED Receive(q))
    /\ [][proc = "serving" => proc' = "serving"]_vars

\* a request that ended in a caught fault, and a later one answered with the
\* PNG
C12_Witness ==
    \E r, q \in Reqs :
        /\ r < q
        /\ Post(r) /\ Done(r) /\ req[r].exc \in {"lookup", "seek", "read", "send"}
        /\ req[r].resp = InternalServerError
        /\ Done(q) /\ req[q].resp = PngResponse

\* C13: at any moment at most one call of remove() is in flight in the
\* process, on each way of running the service.
C13_SingleFlight ==
    Cardinality({r \in Reqs : req[r].pc = "in_remove"}) <= 1

\* an upload that passes validation and holds an image
ValidImage(p) == p \in GoodUploads /\ p.file.content \in Modes

\* C14: requests are independent: the same valid image submitted twice, with
\* no fault on the way, is answered 200 both times.
C14_SameImageTwice200 ==
    \A r, q \in Reqs :
        (r # q /\ Done(r) /\ Done(q) /\ req[r].in = req[q].in
            /\ ValidImage(req[r].in)
            /\ req[r].exc = NoExc /\ req[q].exc = NoExc) =>
           req[r].resp = PngResponse /\ req[q].resp = PngResponse

\* C15: once the start-up has completed the session is non-null, and from
\* then on no request is answered 503 "Service not ready" and /health
\* reports the model loaded.
C15_ReadyOnceStarted ==
    proc = "serving" =>
        /\ rembg_session # None
        /\ \A r \in Reqs :
              Done(r) => /\ req[r].resp # ServiceNotReady
                         /\ req[r].resp.model # "not_loaded"

\* C16: GET /health always answers: 200 "healthy" with model "loaded"
\* exactly when the session is non-null ("not_loaded" otherwise), 503
\* "unhealthy" exactly when computing the status raised; it changes nothing
\* but its own response.
C16_HealthReportsSession ==
    [][\A r \in Reqs :
         (req[r].pc = "entry" /\ req[r].in.path = "/health" /\ req'[r] # req[r]) =>
            /\ req'[r].pc = "done" /\ req'[r].responses = 1
            /\ req'[r].resp \in {Healthy("loaded"), Healthy("not_loaded"), Unhealthy}
            /\ req'[r].resp = Healthy("loaded") => rembg_session # None
            /\ req'[r].resp = Healthy("not_loaded") => rembg_session = None
            /\ req'[r].exc # NoExc <=> req'[r].resp = Unhealthy
            /\ req'[r].resp.code = (IF req'[r].exc = NoExc THEN 200 ELSE 503)
            /\ UNCHANGED <<mode, proc, rembg_session, created>>
            /\ \A q \in Reqs \ {r} : req'[q] = req[q]]_vars

\* a probe answered "loaded" with the session loaded, and one answered
\* "unhealthy"
C16_Witness ==
    /\ rembg_session # None
    /\ \E r \in Reqs : Done(r) /\ req[r].in = GetHealth
                        /\ req[r].resp = Healthy("loaded")
    /\ \E r \in Reqs : Done(r) /\ req[r].in = GetHealth /\ req[r].resp = Unhealthy

\* C17: whenever remove() is called, its input is the PNG re-encoding of an
\* image in mode RGB or RGBA: the uploaded mode if that is RGB or RGBA, RGB
\* for every other mode; never the bytes as uploaded.
C17_InputIsNormalizedPng ==
    \A r \in Reqs :
        req[r].removes > 0 =>
            /\ req[r].input_data[1] = "PNG"
            /\ req[r].input_data[2] \in {"RGB", "RGBA"}
            /\ req[r].input_data[2] =
                  (IF req[r].in.file.content \in {"RGB", "RGBA"}
                   THEN req[r].in.file.content ELSE "RGB")

\* a grayscale upload inside remove() as an RGB PNG
C17_Witness ==
    \E r \in Reqs :
        /\ req[r].pc = "in_remove" /\ req[r].in.file.content = "L"
        /\ req[r].input_data = Png("RGB")

\* C18: validate_image_file, whenever it returns, leaves the stream at the
\* position it found it at, and the file.read() after an accepted validation
\* returns the whole upload.
C18_StreamNotConsumed ==
    /\ [][\A r \in Reqs :
            (req[r].pc = "validate" /\ req[r].in.hasImage
                /\ req'[r] # req[r] /\ req'[r].exc = NoExc) =>
               req'[r].pos = req[r].pos]_vars
    /\ [](\A r \in Reqs :
            req[r].input_data[1] = "raw" =>
               req[r].input_data = Raw(req[r].in.file.content))

\* an accepted upload read in full, and an oversized one rejected with the
\* stream back at its start
C18_Witness ==
    /\ \E r \in Reqs :
          /\ req[r].pc = "decode" /\ req[r].is_valid
          /\ req[r].in.file.content \in Modes
          /\ req[r].input_data = Raw(req[r].in.file.content)
    /\ \E r \in Reqs :
          Done(r) /\ req[r].error_message = FileTooLarge /\ req[r].pos = 0

\* C19: an OPTIONS request to /api/remove-bg is answered 204 with an empty
\* body in every state; the handler runs none of its checks and changes
\* nothing but the response.
C19_PreflightIs204 ==
    [][\A r \in Reqs :
         (req[r].pc = "entry" /\ req[r].in = Preflight /\ req'[r] # req[r]) =>
            /\ req'[r] = [req[r] EXCEPT !.pc = "done", !.resp = NoContent,
                                        !.stage = "RESPONDED", !.responses = 1]
            /\ req'[r].resp.code = 204
            /\ req'[r].resp.error = "" /\ req'[r].resp.message = ""
            /\ UNCHANGED <<mode, proc, rembg_session, created>>
            /\ \A q \in Reqs \ {r} : req'[q] = req[q]]_vars

\* a preflight answered 204 while the session is None
C19_Witness ==
    /\ rembg_session = None
    /\ \E r \in Reqs : Done(r) /\ req[r].in = Preflight /\ req[r].resp = NoContent

====
